---- MODULE Spec2Model ----
(***************************************************************************)
(* Harvest Horizon: the yield-scoring / recommendation engine of           *)
(* src/app.py (FarmingSimulator and the Streamlit page flow around it) and *)
(* its older variant in src/game_engine.py, with the climate data provider *)
(* (NASADataFetcher) of both.                                              *)
(* Also the board game of src/pygame_game.py (HarvestHorizonGame) with the *)
(* game_state.json it saves, and the dashboard of src/streamlit_app.py     *)
(* that reads that file.                                                   *)
(*                                                                         *)
(* Units.  Python floats are modelled by exact scaled integers:            *)
(*   avg_temperature    tenths of a degree    (round(.., 1))               *)
(*   avg_precipitation  hundredths of a mm    (round(.., 2))               *)
(*   avg_soil_moisture  hundredths            (round(.., 2))               *)
(*   yield              half percent points   (20 - irr_diff / 2 is a      *)
(*                      multiple of 0.5, every other term is an integer)   *)
(* so 0.3 is 30, 2.0 is 200, 30 degrees is 300 and a yield of 140 is 280.  *)
(***************************************************************************)
EXTENDS Integers, Sequences, FiniteSets, TLC

VARIABLES
    game_state,     \* st.session_state.game_state (app.py)
    optimal,        \* st.session_state.game.scenario['optimal'], None when game is None
    analysis,       \* game.analyze_conditions() of the series the game loaded
    rec_of,         \* history: the summary the last render passed to recommend
    recs,           \* the list generate_recommendations returned at the last render
    engine_recs,    \* the list game_engine.py's _generate_recommendation returned
    prev,           \* history: input and output of the evaluation before that one
    decision,       \* history: the slider values the last Harvest click passed
    terms,          \* history: the two adjustments the last calculate_yield added
    results,        \* st.session_state.results (app.py)
    engine_results, \* game_engine.py: (yield, self.water_usage, self.fertilizer_cost)
    nasa_data,      \* FarmingSimulator.nasa_data of a simulator used on its own
    summary,        \* how the last analyze_conditions call on nasa_data ended
    cache,          \* NASADataFetcher.cache
    call,           \* per caller: where its get_climate_data call stands, what it returned
    now,            \* the instant datetime.now() reads
    live,           \* history: per (lat, lon, days) the first body upstream delivered
    samples,        \* history: the last two series _get_sample_data generated
    state,          \* HarvestHorizonGame.state (pygame_game.py), None while not running
    is_rolling,     \* HarvestHorizonGame.is_rolling
    game_data,      \* game_content.json as load_game_data read it
    file,           \* game_state.json: missing, truncated, or a document
    writer,         \* where the save_state calls of the running handler stand
    turns,          \* history: the number of turns ended so far
    dashboard       \* streamlit_app.py: what its last run loaded and showed

\* The variables of the page flow, those of the climate data provider and
\* of a simulator used on its own, and those of the board game and its
\* dashboard.
session_vars == <<game_state, optimal, analysis, rec_of, recs, engine_recs,
                  prev, decision, terms, results, engine_results>>
provider_vars == <<nasa_data, summary, cache, call, now, live, samples>>
board_vars == <<state, is_rolling, game_data, file, writer, turns, dashboard>>

vars == <<game_state, optimal, analysis, rec_of, recs, engine_recs, prev,
          decision, terms, results, engine_results,
          nasa_data, summary, cache, call, now, live, samples,
          state, is_rolling, game_data, file, writer, turns, dashboard>>

\* Python's None, as a record so that it compares with the records it stands in for.
None == [none |-> TRUE]

\* Slider range of both decisions (st.slider min_value=0, max_value=100).
MaxLevel == 100
Levels == 0..MaxLevel

Abs(x) == IF x < 0 THEN -x ELSE x
Max(a, b) == IF a >= b THEN a ELSE b
Min(a, b) == IF a <= b THEN a ELSE b

\* The decisions a Harvest click is tried with: every level of one slider
\* against levels of the other on each side of every rule of the scoring.
KeyLevels == {0, 30, 45, 50, 55, 60, 80, 90, 100}
Decisions ==
    {d \in Levels \X Levels : d[1] \in KeyLevels \/ d[2] \in KeyLevels}

\* A percentage in the model's half-point unit.
Pct(n) == 2 * n

(***************************************************************************)
(* Scenario catalog: the optimal reference of each SCENARIOS entry.        *)
(***************************************************************************)
SCENARIOS ==
    [wheat_kansas    |-> [irrigation |-> 45, fertilizer |-> 50],
     corn_iowa       |-> [irrigation |-> 60, fertilizer |-> 55],
     rice_california |-> [irrigation |-> 80, fertilizer |-> 45]]

\* FarmingSimulator takes any scenario_data: the catalog's references and
\* the corners of the [0,100] range.
OptimalRefs ==
    {SCENARIOS[k] : k \in DOMAIN SCENARIOS}
        \cup {[irrigation |-> 0, fertilizer |-> 100],
              [irrigation |-> 100, fertilizer |-> 0]}

Summary(t, p, s) ==
    [avg_temperature |-> t, avg_precipitation |-> p, avg_soil_moisture |-> s]

\* Condition summaries the scoring session is run on: every soil regime and
\* both ends of the optimal band.
ScoreAnalyses ==
    {Summary(320, 150, 25), Summary(250, 600, 60)}
        \cup {Summary(250, 300, s) : s \in {29, 30, 40, 50, 51}}

\* Condition summaries recommend is run on: each threshold, one step below
\* it and one step above it.
RecAnalyses ==
    {Summary(320, 150, 25), Summary(250, 600, 60)}
        \cup {Summary(t, p, s) : t \in {300, 301},
                                 p \in {199, 200, 500, 501},
                                 s \in {29, 30, 50, 51}}

\* The decisions the recommendation runs harvest with between two renders.
RecDecisions == {<<50, 50>>, <<0, 100>>}

(***************************************************************************)
(* FarmingSimulator.generate_recommendations (app.py)                      *)
(***************************************************************************)
Append_if(cond, list, item) == IF cond THEN Append(list, item) ELSE list

\* Mutant: the four rules as one if/elif chain, so only the first match fires.
generate_recommendations_elif(an) ==
    LET soil   == an.avg_soil_moisture
        precip == an.avg_precipitation
        temp   == an.avg_temperature
    IN  IF soil < 30 THEN <<"low_soil_moisture">>
        ELSE IF precip < 200 THEN <<"low_rainfall">>
        ELSE IF temp > 300 THEN <<"high_temperature">>
        ELSE IF soil > 50 /\ precip > 500 THEN <<"overwatering_risk">>
        ELSE <<"conditions_optimal">>

\* Mutant: the "if not recs" default is missing.
generate_recommendations_no_default(an) ==
    LET soil   == an.avg_soil_moisture
        precip == an.avg_precipitation
        temp   == an.avg_temperature
        r1 == Append_if(soil < 30, <<>>, "low_soil_moisture")
        r2 == Append_if(precip < 200, r1, "low_rainfall")
        r3 == Append_if(temp > 300, r2, "high_temperature")
    IN  Append_if(soil > 50 /\ precip > 500, r3, "overwatering_risk")

\* Mutant: the list is kept between calls instead of starting empty.
generate_recommendations_shared_list(an) ==
    LET soil   == an.avg_soil_moisture
        precip == an.avg_precipitation
        temp   == an.avg_temperature
        r1 == Append_if(soil < 30, recs, "low_soil_moisture")
        r2 == Append_if(precip < 200, r1, "low_rainfall")
        r3 == Append_if(temp > 300, r2, "high_temperature")
        r4 == Append_if(soil > 50 /\ precip > 500, r3, "overwatering_risk")
    IN  Append_if(r4 = <<>>, r4, "conditions_optimal")

generate_recommendations(an) ==
    LET soil   == an.avg_soil_moisture
        precip == an.avg_precipitation
        temp   == an.avg_temperature
        r1 == Append_if(soil < 30, <<>>, "low_soil_moisture")
        r2 == Append_if(precip < 200, r1, "low_rainfall")
        r3 == Append_if(temp > 300, r2, "high_temperature")
        r4 == Append_if(soil > 50 /\ precip > 500, r3, "overwatering_risk")
    IN  Append_if(r4 = <<>>, r4, "conditions_optimal")

\* FarmingSimulator._generate_recommendation (game_engine.py)
engine_generate_recommendation(temp, precip, soil) ==
    LET r1 == Append_if(soil < 30, <<>>, "low_soil_moisture")
        r2 == Append_if(precip < 200, r1, "low_rainfall")
        r3 == Append_if(temp > 300, r2, "high_temperature")
        r4 == Append_if(soil > 50 /\ precip > 500, r3, "overwatering_risk")
    IN  IF r4 # <<>> THEN r4 ELSE <<"conditions_optimal">>

(***************************************************************************)
(* FarmingSimulator.calculate_yield (app.py)                               *)
(***************************************************************************)
\* Mutant: "irrigation > 50" and "irrigation < 30" for the two thresholds.
irrigation_score_strict(soil, irrigation, opt) ==
    IF soil < 30
    THEN IF irrigation > 50 THEN Pct(15) ELSE -Pct(30)
    ELSE IF soil > 50
    THEN IF irrigation < 30 THEN Pct(20) ELSE -Pct(25)
    ELSE LET irr_diff == Abs(irrigation - opt.irrigation)
         IN  Max(0, Pct(20) - irr_diff)

\* Mutant: "soil <= 0.3" and "soil >= 0.5", the band's ends left outside it.
irrigation_score_open_band(soil, irrigation, opt) ==
    IF soil <= 30
    THEN IF irrigation >= 50 THEN Pct(15) ELSE -Pct(30)
    ELSE IF soil >= 50
    THEN IF irrigation <= 30 THEN Pct(20) ELSE -Pct(25)
    ELSE LET irr_diff == Abs(irrigation - opt.irrigation)
         IN  Max(0, Pct(20) - irr_diff)

\* Mutant: irr_diff without abs().
irrigation_score_signed(soil, irrigation, opt) ==
    IF soil < 30
    THEN IF irrigation >= 50 THEN Pct(15) ELSE -Pct(30)
    ELSE IF soil > 50
    THEN IF irrigation <= 30 THEN Pct(20) ELSE -Pct(25)
    ELSE LET irr_diff == irrigation - opt.irrigation
         IN  Max(0, Pct(20) - irr_diff)

\* "Irrigation scoring": the adjustment added to base_yield, in half points.
irrigation_score(soil, irrigation, opt) ==
    IF soil < 30
    THEN IF irrigation >= 50 THEN Pct(15) ELSE -Pct(30)
    ELSE IF soil > 50
    THEN IF irrigation <= 30 THEN Pct(20) ELSE -Pct(25)
    ELSE LET irr_diff == Abs(irrigation - opt.irrigation)
         IN  Max(0, Pct(20) - irr_diff)

\* Mutant: the fertilizer rule of game_engine.py in place of app.py's.
fertilizer_score_engine(fertilizer, opt) ==
    IF 40 <= fertilizer /\ fertilizer <= 60 THEN Pct(20)
    ELSE IF fertilizer > 80 THEN -Pct(10)
    ELSE IF fertilizer < 20 THEN -Pct(15)
    ELSE 0

\* Mutant: the two absolute checks ahead of the two fert_diff checks.
fertilizer_score_absolute_first(fertilizer, opt) ==
    LET fert_diff == Abs(fertilizer - opt.fertilizer)
    IN  IF fertilizer > 80 THEN -Pct(15)
        ELSE IF fertilizer < 20 THEN -Pct(20)
        ELSE IF fert_diff <= 10 THEN Pct(25)
        ELSE IF fert_diff <= 20 THEN Pct(10)
        ELSE 0

\* Mutant: the second test is an "if", not an "elif", so a level within 10
\* of the optimum collects both bonuses.
fertilizer_score_both_bonuses(fertilizer, opt) ==
    LET fert_diff == Abs(fertilizer - opt.fertilizer)
    IN  IF fert_diff <= 10 THEN Pct(25) + Pct(10)
        ELSE IF fert_diff <= 20 THEN Pct(10)
        ELSE IF fertilizer > 80 THEN -Pct(15)
        ELSE IF fertilizer < 20 THEN -Pct(20)
        ELSE 0

\* "Fertilizer scoring": the adjustment added to base_yield, in half points.
fertilizer_score(fertilizer, opt) ==
    LET fert_diff == Abs(fertilizer - opt.fertilizer)
    IN  IF fert_diff <= 10 THEN Pct(25)
        ELSE IF fert_diff <= 20 THEN Pct(10)
        ELSE IF fertilizer > 80 THEN -Pct(15)
        ELSE IF fertilizer < 20 THEN -Pct(20)
        ELSE 0

\* Mutant: the thresholds compared with >=.
generate_feedback_inclusive(yield_pct, an, irr, fert) ==
    LET headline ==
            IF yield_pct >= Pct(120) THEN "outstanding"
            ELSE IF yield_pct >= Pct(100) THEN "excellent"
            ELSE IF yield_pct >= Pct(85) THEN "good"
            ELSE "review"
    IN  <<headline, an.avg_temperature, an.avg_soil_moisture,
          an.avg_precipitation, irr, fert>>

\* The first line of the feedback text, then the values it restates.
generate_feedback(yield_pct, an, irr, fert) ==
    LET headline ==
            IF yield_pct > Pct(120) THEN "outstanding"
            ELSE IF yield_pct > Pct(100) THEN "excellent"
            ELSE IF yield_pct > Pct(85) THEN "good"
            ELSE "review"
    IN  <<headline, an.avg_temperature, an.avg_soil_moisture,
          an.avg_precipitation, irr, fert>>

clamp_yield(base_yield) == Max(0, Min(Pct(150), base_yield))

\* Mutant: the unclamped base_yield is returned, and the in-band bonus grows
\* with the distance to the optimum ("20 + irr_diff / 2").
calculate_yield_unclamped(an, opt, irrigation, fertilizer) ==
    LET soil == an.avg_soil_moisture
        irr  == IF soil >= 30 /\ soil <= 50
                THEN Pct(20) + Abs(irrigation - opt.irrigation)
                ELSE irrigation_score(soil, irrigation, opt)
        base_yield == Pct(100) + irr + fertilizer_score(fertilizer, opt)
    IN  [yield       |-> base_yield,
         water_usage |-> irrigation * 10,
         fert_cost   |-> fertilizer * 5,
         feedback    |-> generate_feedback(base_yield, an, irrigation, fertilizer)]

\* Mutant: the two rates exchanged.
calculate_yield_swapped_rates(an, opt, irrigation, fertilizer) ==
    LET base_yield == Pct(100)
                        + irrigation_score(an.avg_soil_moisture, irrigation, opt)
                        + fertilizer_score(fertilizer, opt)
        yield_pct  == clamp_yield(base_yield)
    IN  [yield       |-> yield_pct,
         water_usage |-> irrigation * 5,
         fert_cost   |-> fertilizer * 10,
         feedback    |-> generate_feedback(yield_pct, an, irrigation, fertilizer)]

calculate_yield(an, opt, irrigation, fertilizer) ==
    LET base_yield == Pct(100)
                        + irrigation_score(an.avg_soil_moisture, irrigation, opt)
                        + fertilizer_score(fertilizer, opt)
        yield_pct  == clamp_yield(base_yield)
    IN  [yield       |-> yield_pct,
         water_usage |-> irrigation * 10,
         fert_cost   |-> fertilizer * 5,
         feedback    |-> generate_feedback(yield_pct, an, irrigation, fertilizer)]

(***************************************************************************)
(* FarmingSimulator.calculate_yield (game_engine.py), with the decisions   *)
(* make_decision recorded; nasa_data is loaded.                            *)
(***************************************************************************)
engine_calculate_yield(an, irrigation, fertilizer) ==
    LET soil_moisture == an.avg_soil_moisture
        irr == IF soil_moisture < 30
               THEN IF irrigation >= 50 THEN Pct(10) ELSE -Pct(30)
               ELSE IF soil_moisture > 50
               THEN IF irrigation <= 30 THEN Pct(15) ELSE -Pct(20)
               ELSE 0
        fert == IF 40 <= fertilizer /\ fertilizer <= 60 THEN Pct(20)
                ELSE IF fertilizer > 80 THEN -Pct(10)
                ELSE IF fertilizer < 20 THEN -Pct(15)
                ELSE 0
        base_yield == Pct(100) + irr + fert
    IN  [yield           |-> Max(0, Min(Pct(150), base_yield)),
         water_usage     |-> irrigation * 10,
         fertilizer_cost |-> fertilizer * 5]

(***************************************************************************)
(* Climate series.  A response body or a fallback is the dict               *)
(* {'properties': {'parameter': {variable: {date: value}}}}: here a record  *)
(* with the field parameter, holding per variable the values in date order. *)
(* Series values carry one decimal more than analyze_conditions keeps:      *)
(*   T2M                 hundredths of a degree                            *)
(*   PRECTOTCORR         thousandths of a mm                               *)
(*   GWETROOT            thousandths                                       *)
(*   ALLSKY_SFC_SW_DWN   thousandths of a kWh/m2/day                       *)
(***************************************************************************)
Variables == {"T2M", "PRECTOTCORR", "GWETROOT", "ALLSKY_SFC_SW_DWN"}

Series(t, p, s, r) ==
    [parameter |-> [T2M |-> t, PRECTOTCORR |-> p, GWETROOT |-> s,
                    ALLSKY_SFC_SW_DWN |-> r]]

\* The dict {}, and a JSON body that has no 'properties' entry.
EmptyDict == [empty_dict |-> TRUE]
NoProperties == [messages |-> <<>>]

\* A series whose parameter dict lacks GWETROOT.
WithoutSoil(t, p, r) ==
    [parameter |-> [T2M |-> t, PRECTOTCORR |-> p, ALLSKY_SFC_SW_DWN |-> r]]

RECURSIVE SeqSum(_)
SeqSum(seq) == IF seq = <<>> THEN 0 ELSE Head(seq) + SeqSum(Tail(seq))

RECURSIVE SeqMin(_)
SeqMin(seq) ==
    IF Len(seq) = 1 THEN seq[1] ELSE Min(Head(seq), SeqMin(Tail(seq)))

RECURSIVE SeqMax(_)
SeqMax(seq) ==
    IF Len(seq) = 1 THEN seq[1] ELSE Max(Head(seq), SeqMax(Tail(seq)))

\* Longest sequence a variable of a summarized series holds.
MaxLen == 2

SeqsUpTo(S, n) == UNION {[1..k -> S] : k \in 0..n}

\* Values on the grid of the kept decimals (20.00, 20.10; 2.000; 0.300) and
\* off it (20.04; 1.996; 0.295).
TempValues == {2000, 2004, 2010}
PrecipValues == {1996, 2000}
SoilValues == {295, 300}

\* What a simulator is given to summarize: series with every combination of
\* empty and non-empty sequences, and bodies that are no series.
SeriesInputs ==
    {Series(t, p, s, r) : t \in SeqsUpTo(TempValues, MaxLen),
                          p \in SeqsUpTo(PrecipValues, MaxLen),
                          s \in SeqsUpTo(SoilValues, MaxLen),
                          r \in {<<>>, <<5500>>}}
        \cup {WithoutSoil(<<2000>>, <<2000>>, <<5500>>), EmptyDict,
              NoProperties}

(***************************************************************************)
(* FarmingSimulator.analyze_conditions (app.py; game_engine.py computes    *)
(* the same three averages).  The result is the set of ways the call can   *)
(* end: round() of a float that sits on a decimal tie goes to either       *)
(* neighbour, depending on the float's binary expansion.                   *)
(***************************************************************************)
Raised(error) == [kind |-> "raised", error |-> error]

\* Mutant: round(total / count) without the number of digits, which rounds
\* to a whole number.
round_mean_whole(total, count) ==
    LET d == 100 * count
        q == total \div d
        r == total % d
    IN  IF 2 * r < d THEN {10 * q}
        ELSE IF 2 * r > d THEN {10 * (q + 1)}
        ELSE {10 * q, 10 * (q + 1)}

\* round(sum(values) / len(values), ndigits), from values that carry one
\* decimal more than ndigits; the result in units of the last kept decimal.
round_mean(total, count) ==
    LET d == 10 * count
        q == total \div d
        r == total % d
    IN  IF 2 * r < d THEN {q}
        ELSE IF 2 * r > d THEN {q + 1}
        ELSE {q, q + 1}

analyze_conditions(data) ==
    IF data = None \/ data = EmptyDict THEN {[kind |-> "empty"]}
    ELSE IF "parameter" \notin DOMAIN data THEN {Raised("KeyError")}
    ELSE
        LET params == data.parameter
        IN  IF ~({"T2M", "PRECTOTCORR", "GWETROOT"} \subseteq DOMAIN params)
            THEN {Raised("KeyError")}
            ELSE
                LET temps  == params.T2M
                    precip == params.PRECTOTCORR
                    soil   == params.GWETROOT
                IN  IF temps = <<>> \/ precip = <<>> \/ soil = <<>>
                    THEN {Raised("ZeroDivisionError")}
                    ELSE {[kind |-> "summary", value |-> Summary(t, p, s)] :
                            t \in round_mean(SeqSum(temps), Len(temps)),
                            p \in round_mean(SeqSum(precip), Len(precip)),
                            s \in round_mean(SeqSum(soil), Len(soil))}

(***************************************************************************)
(* NASADataFetcher (app.py).  Coordinates in tenths of a degree.  A cache   *)
(* key is an f-string of its parts; str() of two different numbers differs, *)
(* so the key is modelled by the tuple of the formatted parts.             *)
(***************************************************************************)
LOCATIONS ==
    [wheat_kansas    |-> [lat |-> 375, lon |-> -955],
     corn_iowa       |-> [lat |-> 420, lon |-> -935],
     rice_california |-> [lat |-> 390, lon |-> -1215]]

FetchLocations == {LOCATIONS[k] : k \in DOMAIN LOCATIONS}

\* Longest window a fetch or a fallback generation is asked for.
MaxDays == 3
FetchWindows == {1, MaxDays}

\* Last instant the clock reaches.
MaxClock == 2

\* The callers whose get_climate_data calls may interleave.
Callers == {"c1", "c2"}

\* A dict without entries, and d[k] = v.
NoEntries == [k \in {} |-> None]
Store(d, k, v) == [x \in DOMAIN d \cup {k} |-> IF x = k THEN v ELSE d[x]]

\* np.random.random(): a stream of draws in [0,1), in hundredths.
Draws == 1..(4 * MaxDays)
RandomStreams ==
    {[k \in Draws |-> 0], [k \in Draws |-> 99],
     [k \in Draws |-> (37 * k) % 100], [k \in Draws |-> (50 + 13 * k) % 100]}

\* Mutant: the fallback always covers one day.
get_sample_data_one_day(days, rnd) ==
    Series(<<2000 + 3 * rnd[1]>>, <<2500 + 10 * rnd[2]>>,
           <<300 + rnd[3]>>, <<5500 + 10 * rnd[4]>>)

\* NASADataFetcher._get_sample_data (app.py): the four comprehensions draw
\* in turn, one draw per day.
get_sample_data(days, rnd) ==
    Series([k \in 1..days |-> 2000 + 100 * ((k - 1) % 10) + 3 * rnd[k]],
           [k \in 1..days |-> 2500 + 1000 * ((k - 1) % 5) + 10 * rnd[days + k]],
           [k \in 1..days |-> 300 + 100 * ((k - 1) % 3) + rnd[2 * days + k]],
           [k \in 1..days |-> 5500 + 10 * rnd[3 * days + k]])

\* game_engine.py: load_nasa_data asks for timedelta(days=30);
\* _get_sample_data covers periods=30 and draws nothing.
EngineLoadDays == 30
EngineSampleDays == 30

engine_get_sample_data ==
    Series([k \in 1..EngineSampleDays |-> 2000 + 100 * ((k - 1) % 10)],
           [k \in 1..EngineSampleDays |-> 2500 + 1000 * ((k - 1) % 5)],
           [k \in 1..EngineSampleDays |-> 300 + 100 * ((k - 1) % 3)],
           [k \in 1..EngineSampleDays |-> 5500])

\* What upstream may answer.  A 2xx answer whose body parses as JSON holds
\* whatever upstream put there: one of two complete series, or a body that
\* is no complete series.
LiveSeries(days, v) ==
    Series([k \in 1..days |-> 2100 + 10 * v], [k \in 1..days |-> 3000 + 10 * v],
           [k \in 1..days |-> 400 + 10 * v], [k \in 1..days |-> 6000])
LiveBodies(days) == {LiveSeries(days, 1), LiveSeries(days, 2)}
IncompleteBodies ==
    {EmptyDict, NoProperties, Series(<<2110>>, <<3010>>, <<>>, <<6000>>)}

\* requests.get raises (connection, timeout), raise_for_status raises,
\* response.json() raises.
Failures == {"network_error", "timeout", "http_error", "malformed_json"}

UpstreamResponses(days) ==
    {[kind |-> "json", body |-> b] : b \in LiveBodies(days) \cup IncompleteBodies}
        \cup {[kind |-> k, body |-> None] : k \in Failures}

\* A caller that has not called yet.
NoCall ==
    [pc |-> "idle", args |-> None, cache_key |-> None, end_date |-> 0,
     sent |-> 0, ret |-> None, outcome |-> "none", had_live |-> FALSE]

\* Mutant: the key of game_engine.py, which holds the date of the call.
cache_key_dated(lat, lon, days) == <<lat, lon, days, now>>

\* cache_key = f"{lat}_{lon}_{days}"
cache_key(lat, lon, days) == <<lat, lon, days>>

\* Mutant: a failed request is sent once more before falling back.
on_exception_retry(cl, kind, rnd) ==
    IF cl.sent < 2
    THEN [cl EXCEPT !.sent = @ + 1]
    ELSE [cl EXCEPT !.pc = "returned", !.outcome = kind,
                    !.ret = get_sample_data(cl.args[3], rnd)]

\* except: return self._get_sample_data(days)
on_exception(cl, kind, rnd) ==
    [cl EXCEPT !.pc = "returned", !.outcome = kind,
               !.ret = get_sample_data(cl.args[3], rnd)]

\* get_climate_data up to the point where it returns the cached body or
\* blocks in requests.get.
GetClimateData(c, loc, days) ==
    /\ call[c].pc # "request"
    /\ LET key  == cache_key(loc.lat, loc.lon, days)
           args == <<loc.lat, loc.lon, days>>
           hit  == key \in DOMAIN cache
       IN  call' = [call EXCEPT ![c] =
                [pc        |-> IF hit THEN "returned" ELSE "request",
                 args      |-> args,
                 cache_key |-> key,
                 end_date  |-> now,
                 sent      |-> IF hit THEN 0 ELSE 1,
                 ret       |-> IF hit THEN cache[key] ELSE None,
                 outcome   |-> IF hit THEN "hit" ELSE "none",
                 had_live  |-> args \in DOMAIN live]]
    /\ UNCHANGED <<nasa_data, summary, cache, now, live, samples>>
    /\ UNCHANGED session_vars
    /\ UNCHANGED board_vars

\* Mutant: the except branch stores the sample data under the key before
\* returning it.
Response_caching_fallback(c) ==
    /\ call[c].pc = "request"
    /\ \E resp \in UpstreamResponses(call[c].args[3]) :
          IF resp.kind = "json"
          THEN /\ cache' = Store(cache, call[c].cache_key, resp.body)
               /\ call' = [call EXCEPT ![c] =
                             [@ EXCEPT !.pc = "returned", !.ret = resp.body,
                                       !.outcome = "live"]]
               /\ live' = IF call[c].args \in DOMAIN live THEN live
                          ELSE Store(live, call[c].args,
                                     [body |-> resp.body, at |-> now])
          ELSE /\ \E rnd \in RandomStreams :
                     /\ call' = [call EXCEPT ![c] =
                                   on_exception(call[c], resp.kind, rnd)]
                     /\ cache' = Store(cache, call[c].cache_key,
                                       get_sample_data(call[c].args[3], rnd))
               /\ UNCHANGED live
    /\ UNCHANGED <<nasa_data, summary, now, samples>>
    /\ UNCHANGED session_vars
    /\ UNCHANGED board_vars

\* requests.get returns or raises, and get_climate_data runs to its return.
Response(c) ==
    /\ call[c].pc = "request"
    /\ \E resp \in UpstreamResponses(call[c].args[3]) :
          IF resp.kind = "json"
          THEN /\ cache' = Store(cache, call[c].cache_key, resp.body)
               /\ call' = [call EXCEPT ![c] =
                             [@ EXCEPT !.pc = "returned", !.ret = resp.body,
                                       !.outcome = "live"]]
               /\ live' = IF call[c].args \in DOMAIN live THEN live
                          ELSE Store(live, call[c].args,
                                     [body |-> resp.body, at |-> now])
          ELSE /\ \E rnd \in RandomStreams :
                     call' = [call EXCEPT ![c] =
                                 on_exception(call[c], resp.kind, rnd)]
               /\ UNCHANGED <<cache, live>>
    /\ UNCHANGED <<nasa_data, summary, now, samples>>
    /\ UNCHANGED session_vars
    /\ UNCHANGED board_vars

\* Time passes between two steps.
Tick ==
    /\ now < MaxClock
    /\ now' = now + 1
    /\ UNCHANGED <<nasa_data, summary, cache, call, live, samples>>
    /\ UNCHANGED session_vars
    /\ UNCHANGED board_vars

(***************************************************************************)
(* NASADataFetcher (game_engine.py), called by load_nasa_data.             *)
(***************************************************************************)
\* end_date - timedelta(days=days): str() of it differs whenever end_date does.
DaysBefore(end_date, days) == [end |-> end_date, minus_days |-> days]

\* cache_key = f"{lat}_{lon}_{start_date}_{end_date}"
engine_cache_key(lat, lon, start_date, end_date) ==
    <<lat, lon, start_date, end_date>>

EngineResponses ==
    {[kind |-> "json", body |-> b] :
        b \in LiveBodies(EngineLoadDays) \cup {NoProperties}}
        \cup {[kind |-> k, body |-> None] : k \in Failures}

\* load_nasa_data reads the clock and calls get_climate_data, which returns
\* the cached body or blocks in requests.get.
EngineLoad(c, loc) ==
    /\ call[c].pc # "request"
    /\ LET end_date   == now
           start_date == DaysBefore(end_date, EngineLoadDays)
           key  == engine_cache_key(loc.lat, loc.lon, start_date, end_date)
           args == <<loc.lat, loc.lon, EngineLoadDays>>
           hit  == key \in DOMAIN cache
       IN  call' = [call EXCEPT ![c] =
                [pc        |-> IF hit THEN "returned" ELSE "request",
                 args      |-> args,
                 cache_key |-> key,
                 end_date  |-> end_date,
                 sent      |-> IF hit THEN 0 ELSE 1,
                 ret       |-> IF hit THEN cache[key] ELSE None,
                 outcome   |-> IF hit THEN "hit" ELSE "none",
                 had_live  |-> args \in DOMAIN live]]
    /\ UNCHANGED <<nasa_data, summary, cache, now, live, samples>>
    /\ UNCHANGED session_vars
    /\ UNCHANGED board_vars

\* The answer to the engine's request: stored and returned, or st.error and
\* the sample data.
EngineResponse(c) ==
    /\ call[c].pc = "request"
    /\ \E resp \in EngineResponses :
          IF resp.kind = "json"
          THEN /\ cache' = Store(cache, call[c].cache_key, resp.body)
               /\ call' = [call EXCEPT ![c] =
                             [@ EXCEPT !.pc = "returned", !.ret = resp.body,
                                       !.outcome = "live"]]
               /\ live' = IF call[c].args \in DOMAIN live THEN live
                          ELSE Store(live, call[c].args,
                                     [body |-> resp.body, at |-> now])
          ELSE /\ call' = [call EXCEPT ![c] =
                             [@ EXCEPT !.pc = "returned",
                                       !.ret = engine_get_sample_data,
                                       !.outcome = resp.kind]]
               /\ UNCHANGED <<cache, live>>
    /\ UNCHANGED <<nasa_data, summary, now, samples>>
    /\ UNCHANGED session_vars
    /\ UNCHANGED board_vars

(***************************************************************************)
(* The page flow of app.py.  Each page-flow step comes in two forms: as    *)
(* the program takes it, and with an earlier evaluation kept in prev, for   *)
(* the specification that compares two evaluations of recommend.           *)
(***************************************************************************)
Init ==
    /\ game_state = "welcome"
    /\ optimal = None
    /\ analysis = None
    /\ rec_of = None
    /\ recs = <<>>
    /\ engine_recs = <<>>
    /\ prev = None
    /\ decision = None
    /\ terms = None
    /\ results = None
    /\ engine_results = None
    /\ nasa_data = None
    /\ summary = None
    /\ cache = NoEntries
    /\ call = [c \in Callers |-> NoCall]
    /\ now = 0
    /\ live = NoEntries
    /\ samples = <<>>
    /\ state = None
    /\ is_rolling = FALSE
    /\ game_data = None
    /\ file = None
    /\ writer = None
    /\ turns = 0
    /\ dashboard = None

\* The playing page: analyze_conditions, then the recommendations shown.
Render(an) ==
    /\ rec_of' = an
    /\ recs' = generate_recommendations(an)
    /\ engine_recs' = engine_generate_recommendation(
                          an.avg_temperature, an.avg_precipitation,
                          an.avg_soil_moisture)

\* prev keeps one of the evaluations made before the one being made: the one
\* it held, or the last one.
KeepEarlier ==
    prev' \in {prev} \cup (IF rec_of = None THEN {}
                           ELSE {[input |-> rec_of, output |-> recs]})

\* "Start Farming": a FarmingSimulator for the chosen scenario loads its
\* series; the rerun renders the playing page.
StartStep(opt, an) ==
    /\ game_state = "welcome"
    /\ optimal' = opt
    /\ analysis' = an
    /\ game_state' = "playing"
    /\ Render(an)
    /\ UNCHANGED <<decision, terms, results, engine_results>>
    /\ UNCHANGED provider_vars
    /\ UNCHANGED board_vars

\* Any widget interaction on the playing page reruns the script, which
\* evaluates analyze_conditions and generate_recommendations again.
RerunStep ==
    /\ game_state = "playing"
    /\ Render(analysis)
    /\ UNCHANGED <<game_state, optimal, analysis, decision, terms, results,
                   engine_results>>
    /\ UNCHANGED provider_vars
    /\ UNCHANGED board_vars

\* "Harvest & See Results" with the two slider values.
Harvest(irrigation, fertilizer) ==
    /\ game_state = "playing"
    /\ results' = calculate_yield(analysis, optimal, irrigation, fertilizer)
    /\ engine_results' = engine_calculate_yield(analysis, irrigation, fertilizer)
    /\ decision' = [irrigation |-> irrigation, fertilizer |-> fertilizer]
    /\ terms' = [irrigation |-> irrigation_score(analysis.avg_soil_moisture,
                                                 irrigation, optimal),
                 fertilizer |-> fertilizer_score(fertilizer, optimal)]
    /\ game_state' = "results"
    /\ UNCHANGED <<optimal, analysis, rec_of, recs, engine_recs, prev>>
    /\ UNCHANGED provider_vars
    /\ UNCHANGED board_vars

\* "Try Again": back to the playing page of the same game, which renders.
\* (ui_interface.py drops its simulator, and with it the recorded usage.)
TryAgainStep ==
    /\ game_state = "results"
    /\ game_state' = "playing"
    /\ results' = None
    /\ engine_results' = None
    /\ decision' = None
    /\ terms' = None
    /\ Render(analysis)
    /\ UNCHANGED <<optimal, analysis>>
    /\ UNCHANGED provider_vars
    /\ UNCHANGED board_vars

\* "New Scenario" on the results page.
NewScenario ==
    /\ game_state = "results"
    /\ game_state' = "welcome"
    /\ optimal' = None
    /\ analysis' = None
    /\ results' = None
    /\ engine_results' = None
    /\ decision' = None
    /\ terms' = None
    /\ UNCHANGED <<rec_of, recs, engine_recs, prev>>
    /\ UNCHANGED provider_vars
    /\ UNCHANGED board_vars

\* "Restart Game" in the sidebar, on every page.
Restart ==
    /\ game_state' = "welcome"
    /\ optimal' = None
    /\ analysis' = None
    /\ results' = None
    /\ engine_results' = None
    /\ decision' = None
    /\ terms' = None
    /\ UNCHANGED <<rec_of, recs, engine_recs, prev>>
    /\ UNCHANGED provider_vars
    /\ UNCHANGED board_vars

Start(opt, an) == StartStep(opt, an) /\ UNCHANGED prev
Rerun == RerunStep /\ UNCHANGED prev
TryAgain == TryAgainStep /\ UNCHANGED prev

Next ==
    \/ \E opt \in OptimalRefs, an \in ScoreAnalyses : Start(opt, an)
    \/ Rerun
    \/ \E d \in Decisions : Harvest(d[1], d[2])
    \/ TryAgain
    \/ NewScenario
    \/ Restart

\* The scoring session: every decision of Decisions on every summary of
\* ScoreAnalyses and every reference of OptimalRefs.
Spec == Init /\ [][Next]_vars

LoggedStart(opt, an) == StartStep(opt, an) /\ KeepEarlier
LoggedRerun == RerunStep /\ KeepEarlier
LoggedTryAgain == TryAgainStep /\ KeepEarlier

RecNext ==
    \/ \E k \in DOMAIN SCENARIOS, an \in RecAnalyses :
            LoggedStart(SCENARIOS[k], an)
    \/ LoggedRerun
    \/ \E d \in RecDecisions : Harvest(d[1], d[2])
    \/ LoggedTryAgain
    \/ NewScenario
    \/ Restart

\* The recommendation runs: the same page flow on the summaries of
\* RecAnalyses, remembering one of the evaluations made earlier.
SpecRecommend == Init /\ [][RecNext]_vars

(***************************************************************************)
(* The provider and a simulator used on their own.                         *)
(***************************************************************************)
\* load_nasa_data, once on a new simulator, stores what the fetcher returned.
LoadSeries ==
    /\ nasa_data = None
    /\ nasa_data' \in SeriesInputs
    /\ summary' = None
    /\ UNCHANGED <<cache, call, now, live, samples>>
    /\ UNCHANGED session_vars
    /\ UNCHANGED board_vars

\* A call of analyze_conditions, before or after a load.
Analyze ==
    /\ summary' \in analyze_conditions(nasa_data)
    /\ UNCHANGED <<nasa_data, cache, call, now, live, samples>>
    /\ UNCHANGED session_vars
    /\ UNCHANGED board_vars

SummarizeNext ==
    \/ LoadSeries
    \/ Analyze

\* A simulator summarized before its load and after it, on each input of
\* SeriesInputs.
SpecSummarize == Init /\ [][SummarizeNext]_vars

LastTwo(seq) == IF Len(seq) > 2 THEN Tail(seq) ELSE seq

\* A call of app.py's _get_sample_data.
Sample(days, rnd) ==
    /\ samples' = LastTwo(Append(samples,
                      [variant |-> "app", days |-> days,
                       series |-> get_sample_data(days, rnd)]))
    /\ UNCHANGED <<nasa_data, summary, cache, call, now, live>>
    /\ UNCHANGED session_vars
    /\ UNCHANGED board_vars

\* A call of game_engine.py's _get_sample_data, for the window its caller
\* asked for.
EngineSample ==
    /\ samples' = LastTwo(Append(samples,
                      [variant |-> "engine", days |-> EngineLoadDays,
                       series |-> engine_get_sample_data]))
    /\ UNCHANGED <<nasa_data, summary, cache, call, now, live>>
    /\ UNCHANGED session_vars
    /\ UNCHANGED board_vars

FallbackNext ==
    \/ \E days \in 1..MaxDays, rnd \in RandomStreams : Sample(days, rnd)
    \/ EngineSample

\* Fallback generations of both variants, any two in a row.
SpecFallback == Init /\ [][FallbackNext]_vars

FetchNext ==
    \/ \E loc \in FetchLocations : GetClimateData("c1", loc, MaxDays)
    \/ Response("c1")
    \/ Tick

\* One caller: each get_climate_data call returns before the next begins.
SpecFetch == Init /\ [][FetchNext]_vars

ConcurrentNext ==
    \/ \E c \in Callers, days \in FetchWindows :
            GetClimateData(c, LOCATIONS.wheat_kansas, days)
    \/ \E c \in Callers : Response(c)

\* Two callers of one fetcher whose calls interleave.
SpecConcurrentFetch == Init /\ [][ConcurrentNext]_vars

EngineNext ==
    \/ EngineLoad("c1", LOCATIONS.wheat_kansas)
    \/ EngineResponse("c1")
    \/ Tick

\* game_engine.py: start_new_game loads Kansas again and again.
SpecEngineFetch == Init /\ [][EngineNext]_vars

(***************************************************************************)
(* The app.py session: the page flow with the simulator loading its series *)
(* from the session's fetcher.                                             *)
(***************************************************************************)
\* def get_climate_data(self, lat, lon, days=30), as load_nasa_data calls it.
DefaultDays == 30

\* np.random over the 4 * DefaultDays draws of one fallback.
SessionStreams ==
    {[k \in 1..(4 * DefaultDays) |-> 0],
     [k \in 1..(4 * DefaultDays) |-> (37 * k) % 100]}

\* get_climate_data from call to return: what it returns and the cache it
\* leaves, when upstream answers resp and a fallback draws rnd.
get_climate_data(cch, lat, lon, days, resp, rnd) ==
    LET key == cache_key(lat, lon, days)
    IN  IF key \in DOMAIN cch
        THEN [ret |-> cch[key], cache |-> cch]
        ELSE IF resp.kind = "json"
        THEN [ret |-> resp.body, cache |-> Store(cch, key, resp.body)]
        ELSE [ret |-> get_sample_data(days, rnd), cache |-> cch]

\* analyze_conditions is a function of the series: of the outcomes the
\* rounding of the model leaves open it gives the same one at every call.
Analyzed(data) == CHOOSE o \in analyze_conditions(data) : TRUE

\* The playing page: analysis = game.analyze_conditions(), the metrics read
\* from it, then the recommendations.  A series that gives no summary ends
\* the run in an exception before the recommendations and the Harvest button.
PlayingPage(data) ==
    LET o == Analyzed(data)
    IN  /\ summary' = o
        /\ IF o.kind = "summary"
           THEN /\ analysis' = o.value
                /\ Render(o.value)
           ELSE /\ analysis' = None
                /\ UNCHANGED <<rec_of, recs, engine_recs>>

\* Mutant: game_state is set before the simulator exists, and the load is
\* left out.
SessionStart_without_load(k, resp, rnd) ==
    /\ game_state = "welcome"
    /\ game_state' = "playing"
    /\ UNCHANGED <<optimal, nasa_data, cache, prev, summary, analysis,
                   rec_of, recs, engine_recs>>
    /\ decision' = None
    /\ UNCHANGED <<terms, results, engine_results, call, now, live, samples>>
    /\ UNCHANGED board_vars

\* "Start Farming": a simulator for the chosen scenario, load_nasa_data,
\* game_state = 'playing', and the rerun that renders the playing page.
SessionStart(k, resp, rnd) ==
    /\ game_state = "welcome"
    /\ LET got == get_climate_data(cache, LOCATIONS[k].lat, LOCATIONS[k].lon,
                                   DefaultDays, resp, rnd)
       IN  /\ optimal' = SCENARIOS[k]
           /\ nasa_data' = got.ret
           /\ cache' = got.cache
           /\ prev' = [input |-> got.ret, output |-> Analyzed(got.ret)]
           /\ PlayingPage(got.ret)
    /\ game_state' = "playing"
    /\ decision' = None
    /\ UNCHANGED <<terms, results, engine_results, call, now, live, samples>>
    /\ UNCHANGED board_vars

\* "Or Start Multiplayer Board Farming Game": the same load, then the page
\* that shows dashboard.html or a warning.
SessionStartMultiplayer(k, resp, rnd) ==
    /\ game_state = "welcome"
    /\ LET got == get_climate_data(cache, LOCATIONS[k].lat, LOCATIONS[k].lon,
                                   DefaultDays, resp, rnd)
       IN  /\ optimal' = SCENARIOS[k]
           /\ nasa_data' = got.ret
           /\ cache' = got.cache
           /\ prev' = [input |-> got.ret, output |-> Analyzed(got.ret)]
    /\ game_state' = "multi-playing"
    /\ decision' = None
    /\ UNCHANGED <<summary, analysis, rec_of, recs, engine_recs>>
    /\ UNCHANGED <<terms, results, engine_results, call, now, live, samples>>
    /\ UNCHANGED board_vars

\* A widget interaction on the playing page: the script runs again.
SessionRerun ==
    /\ game_state = "playing"
    /\ PlayingPage(nasa_data)
    /\ UNCHANGED <<game_state, optimal, nasa_data, cache, prev, decision>>
    /\ UNCHANGED <<terms, results, engine_results, call, now, live, samples>>
    /\ UNCHANGED board_vars

\* "Harvest & See Results", offered once the playing page has rendered:
\* calculate_yield analyzes the series itself.
SessionHarvest(irrigation, fertilizer) ==
    /\ game_state = "playing"
    /\ summary.kind = "summary"
    /\ results' = calculate_yield(Analyzed(nasa_data).value, optimal,
                                  irrigation, fertilizer)
    /\ decision' = [irrigation |-> irrigation, fertilizer |-> fertilizer]
    /\ game_state' = "results"
    /\ UNCHANGED <<optimal, nasa_data, cache, prev, summary, analysis,
                   rec_of, recs, engine_recs>>
    /\ UNCHANGED <<terms, engine_results, call, now, live, samples>>
    /\ UNCHANGED board_vars

\* Mutant: "Try Again" has the simulator load its series once more.
SessionTryAgain_reloading ==
    /\ game_state = "results"
    /\ game_state' = "playing"
    /\ results' = None
    /\ \E k \in DOMAIN SCENARIOS, resp \in UpstreamResponses(DefaultDays),
          rnd \in SessionStreams :
          LET got == get_climate_data(cache, LOCATIONS[k].lat,
                                      LOCATIONS[k].lon, DefaultDays, resp, rnd)
          IN  /\ optimal = SCENARIOS[k]
              /\ nasa_data' = got.ret
              /\ cache' = got.cache
              /\ PlayingPage(got.ret)
    /\ UNCHANGED <<optimal, prev, decision>>
    /\ UNCHANGED <<terms, engine_results, call, now, live, samples>>
    /\ UNCHANGED board_vars

\* "Try Again": game_state = 'playing', results = None, and the rerun.
SessionTryAgain ==
    /\ game_state = "results"
    /\ game_state' = "playing"
    /\ results' = None
    /\ PlayingPage(nasa_data)
    /\ UNCHANGED <<optimal, nasa_data, cache, prev, decision>>
    /\ UNCHANGED <<terms, engine_results, call, now, live, samples>>
    /\ UNCHANGED board_vars

\* "New Scenario": the simulator and the results are dropped.
SessionNewScenario ==
    /\ game_state = "results"
    /\ game_state' = "welcome"
    /\ optimal' = None
    /\ nasa_data' = None
    /\ results' = None
    /\ prev' = None
    /\ decision' = None
    /\ summary' = None
    /\ analysis' = None
    /\ UNCHANGED <<rec_of, recs, engine_recs, cache>>
    /\ UNCHANGED <<terms, engine_results, call, now, live, samples>>
    /\ UNCHANGED board_vars

\* "Restart Game" in the sidebar, on every page.
SessionRestart ==
    /\ game_state' = "welcome"
    /\ optimal' = None
    /\ nasa_data' = None
    /\ results' = None
    /\ prev' = None
    /\ decision' = None
    /\ summary' = None
    /\ analysis' = None
    /\ UNCHANGED <<rec_of, recs, engine_recs, cache>>
    /\ UNCHANGED <<terms, engine_results, call, now, live, samples>>
    /\ UNCHANGED board_vars

SessionNext ==
    \/ \E k \in DOMAIN SCENARIOS, resp \in UpstreamResponses(DefaultDays),
          rnd \in SessionStreams : SessionStart(k, resp, rnd)
    \/ \E k \in DOMAIN SCENARIOS, resp \in UpstreamResponses(DefaultDays),
          rnd \in SessionStreams : SessionStartMultiplayer(k, resp, rnd)
    \/ SessionRerun
    \/ \E d \in RecDecisions : SessionHarvest(d[1], d[2])
    \/ SessionTryAgain
    \/ SessionNewScenario
    \/ SessionRestart

\* One browser session of app.py: its fetcher and its cache live as long as
\* the session, its simulator from a Start click to the next reset.
SpecSession == Init /\ [][SessionNext]_vars

(***************************************************************************)
(* The board game (pygame_game.py): HarvestHorizonGame.                    *)
(* Player indices and tile indices are those of Python, from 0; the model's *)
(* sequences are indexed from 1.  Cash is in dollars.  The last_update     *)
(* stamp save_state adds to the document is left out.                      *)
(***************************************************************************)
\* The games checked end at most MaxTurns turns.
MaxTurns == 4

Player(name) ==
    [name |-> name, position |-> 0, cash |-> 10000, sustainability |-> 7,
     assets |-> <<>>]

\* The state load_state builds when game_state.json cannot be read.
DefaultState ==
    [current_player |-> 0,
     players |-> <<Player("Player 1"), Player("Player 2")>>,
     game_state |-> "ROLL",
     dice_value |-> 0,
     current_card |-> None,
     selected_solution |-> None]

\* game_content.json is data the game is given.  Two contents: tiles of
\* every type, cards whose solutions cost more or less than a player holds,
\* solutions with and without a sustainability_change, assets with and
\* without an income_boost.
Solution(cost, effect) == [cost |-> cost, effect |-> effect]
Contents ==
    {[board_tiles |-> <<"start", "event", "shop", "field">>,
      problem_cards |->
         <<[title |-> "Drought",
            solutions |-> <<Solution(6000, [sustainability_change |-> 2]),
                            Solution(7000, [yield_change |-> 10])>>]>>,
      assets |-> <<[id |-> "drip_irrigation", cost |-> 4000,
                    income_boost |-> 500]>>],
     [board_tiles |-> <<"field", "shop", "event">>,
      problem_cards |->
         <<[title |-> "Pests",
            solutions |-> <<Solution(0, [sustainability_change |-> -7])>>],
           [title |-> "Flood",
            solutions |-> <<Solution(10500, [sustainability_change |-> 5])>>]>>,
      assets |-> <<[id |-> "soil_sensor", cost |-> 10000]>>]}

\* game_state.json right after open(.., "w"), before json.dump has written.
Truncated == [truncated |-> TRUE]

\* asset.get("income_boost", 0)
income_boost(asset) ==
    IF "income_boost" \in DOMAIN asset THEN asset.income_boost ELSE 0

\* The bonus loop of update: every owned id, against every asset of the
\* content.
RECURSIVE MatchingBoost(_, _)
MatchingBoost(assets, aid) ==
    IF assets = <<>> THEN 0
    ELSE (IF Head(assets).id = aid THEN income_boost(Head(assets)) ELSE 0)
            + MatchingBoost(Tail(assets), aid)

RECURSIVE OwnedBoost(_, _)
OwnedBoost(assets, owned) ==
    IF owned = <<>> THEN 0
    ELSE MatchingBoost(assets, Head(owned)) + OwnedBoost(assets, Tail(owned))

\* "Field: earn income"
income(player) == 500 + OwnedBoost(game_data.assets, player.assets)

\* Mutant: the piece stops on the last tile instead of going round.
move_to_the_end(position, dice, tiles) == Min(position + dice, tiles - 1)

\* (player["position"] + self.dice_value) % len(board_tiles)
move(position, dice, tiles) == (position + dice) % tiles

\* Mutant: the turn index wraps at the last player instead of after it.
end_turn_early_wrap(st) ==
    [st EXCEPT !.current_player = (@ + 1) % (Len(st.players) - 1)]

\* end_turn, before its save_state.
end_turn(st) ==
    [st EXCEPT !.current_player = (@ + 1) % Len(st.players)]

\* Mutant: the shop sells whatever the cash.
affordable_always(player, item) == TRUE

\* player["cash"] >= solution["cost"], current["cash"] >= asset["cost"]
affordable(player, item) == player.cash >= item.cost

\* max(1, min(10, sustainability + change))
clamp_sustainability(v) == Max(1, Min(10, v))

\* The current player, and its index in the model's sequence.
Current == state.current_player + 1
CurrentPlayer == state.players[Current]

\* save_state has opened game_state.json for writing: the file is empty
\* until json.dump and the close have written the state; n calls are left.
save_state(n) ==
    /\ file' = Truncated
    /\ writer' = [pc |-> "dump", left |-> n,
                  before |-> IF writer = None THEN file ELSE writer.before]

\* HarvestHorizonGame(): load_game_data, then load_state.
Launch(content) ==
    /\ state = None
    /\ game_data \in {None, content}
    /\ game_data' = content
    /\ state' = IF file \in {None, Truncated} THEN DefaultState ELSE file
    /\ is_rolling' = FALSE
    /\ UNCHANGED <<file, writer, turns, dashboard>>
    /\ UNCHANGED <<session_vars, provider_vars>>

\* pygame.QUIT: the process exits.
Quit ==
    /\ state # None
    /\ writer = None
    /\ state' = None
    /\ is_rolling' = FALSE
    /\ UNCHANGED <<game_data, file, writer, turns, dashboard>>
    /\ UNCHANGED <<session_vars, provider_vars>>

\* A click on "Roll Dice": roll_dice.
ClickRoll ==
    /\ state # None
    /\ writer = None
    /\ state.game_state = "ROLL"
    /\ turns < MaxTurns
    /\ is_rolling' = TRUE
    /\ UNCHANGED <<state, game_data, file, writer, turns, dashboard>>
    /\ UNCHANGED <<session_vars, provider_vars>>

\* update, a second after the click: the dice, the move, the tile.
ResolveRoll(dice, card) ==
    /\ state # None
    /\ writer = None
    /\ is_rolling
    /\ is_rolling' = FALSE
    /\ LET pos   == move(CurrentPlayer.position, dice,
                         Len(game_data.board_tiles))
           tile  == game_data.board_tiles[pos + 1]
           moved == [state EXCEPT !.dice_value = dice,
                                  !.players[Current].position = pos]
       IN  IF tile = "event"
           THEN /\ state' = [moved EXCEPT !.current_card = card,
                                          !.game_state = "CARD"]
                /\ save_state(1)
                /\ UNCHANGED turns
           ELSE IF tile = "shop"
           THEN /\ state' = [moved EXCEPT !.game_state = "SHOP"]
                /\ save_state(1)
                /\ UNCHANGED turns
           ELSE /\ state' = end_turn(
                       [moved EXCEPT !.players[Current].cash =
                                         @ + income(CurrentPlayer)])
                /\ save_state(2)
                /\ turns' = turns + 1
    /\ UNCHANGED <<game_data, dashboard>>
    /\ UNCHANGED <<session_vars, provider_vars>>

\* A click on the button of a solution the player can pay: select_solution.
SelectSolution(solution) ==
    /\ state # None
    /\ writer = None
    /\ state.game_state = "CARD"
    /\ affordable(CurrentPlayer, solution)
    /\ LET paid == [state EXCEPT !.players[Current].cash = @ - solution.cost]
           felt == IF "sustainability_change" \in DOMAIN solution.effect
                   THEN [paid EXCEPT !.players[Current].sustainability =
                            clamp_sustainability(
                                @ + solution.effect.sustainability_change)]
                   ELSE paid
       IN  state' = end_turn([felt EXCEPT !.game_state = "ROLL",
                                          !.current_card = None])
    /\ save_state(1)
    /\ turns' = turns + 1
    /\ UNCHANGED <<is_rolling, game_data, dashboard>>
    /\ UNCHANGED <<session_vars, provider_vars>>

\* A click on the button of an asset the player can pay: buy_asset.
BuyAsset(asset) ==
    /\ state # None
    /\ writer = None
    /\ state.game_state = "SHOP"
    /\ affordable(CurrentPlayer, asset)
    /\ state' = end_turn(
           [state EXCEPT !.players[Current].cash =
                             (@ - asset.cost) + income_boost(asset),
                         !.players[Current].assets = Append(@, asset.id),
                         !.game_state = "ROLL"])
    /\ save_state(1)
    /\ turns' = turns + 1
    /\ UNCHANGED <<is_rolling, game_data, dashboard>>
    /\ UNCHANGED <<session_vars, provider_vars>>

\* json.dump and the close of save_state: the document is in the file.
Dump ==
    /\ writer # None
    /\ writer.pc = "dump"
    /\ file' = state
    /\ writer' = IF writer.left = 1 THEN None
                 ELSE [pc |-> "open", left |-> writer.left - 1,
                       before |-> writer.before]
    /\ UNCHANGED <<state, is_rolling, game_data, turns, dashboard>>
    /\ UNCHANGED <<session_vars, provider_vars>>

\* The second save_state of update opens the file.
Reopen ==
    /\ writer # None
    /\ writer.pc = "open"
    /\ save_state(writer.left)
    /\ UNCHANGED <<state, is_rolling, game_data, turns, dashboard>>
    /\ UNCHANGED <<session_vars, provider_vars>>

Range(seq) == {seq[i] : i \in DOMAIN seq}

\* The solutions on the card buttons, the assets on the shop buttons.
CardButtons ==
    IF state = None \/ state.current_card = None THEN {}
    ELSE Range(state.current_card.solutions)
ShopButtons == IF game_data = None THEN {} ELSE Range(game_data.assets)

\* The cards random.choice draws from.
ProblemCards ==
    IF game_data = None THEN {} ELSE Range(game_data.problem_cards)

BoardNext ==
    \/ \E content \in Contents : Launch(content)
    \/ Quit
    \/ ClickRoll
    \/ \E dice \in 1..6 :
          \E card \in ProblemCards : ResolveRoll(dice, card)
    \/ \E solution \in CardButtons : SelectSolution(solution)
    \/ \E asset \in ShopButtons : BuyAsset(asset)
    \/ Dump
    \/ Reopen

\* The board game on its own, launched, played and relaunched.
SpecBoard == Init /\ [][BoardNext]_vars

(***************************************************************************)
(* The dashboard (streamlit_app.py), a process of its own that reads the   *)
(* file the board game writes.                                             *)
(***************************************************************************)
\* What load_game_state returns when the file cannot be read or parsed.
DashboardDefault ==
    [players |-> <<[name |-> "Player 1", cash |-> 0, sustainability |-> 0]>>]

\* load_game_state on a file content: json.load of a document, the default
\* when open or json.load raises.
load_game_state(f) ==
    IF f = None \/ f = Truncated THEN DashboardDefault ELSE f

\* state["players"][state["current_player"]] and the sidebar metrics.
select_player(loaded) ==
    IF "current_player" \notin DOMAIN loaded THEN Raised("KeyError")
    ELSE IF loaded.current_player + 1 \notin DOMAIN loaded.players
    THEN Raised("IndexError")
    ELSE [kind |-> "rendered",
          player |-> loaded.players[loaded.current_player + 1]]

\* One run of the dashboard script.  With expired = FALSE and an earlier
\* run, st.cache_data(ttl=2) answers for load_game_state.  The run notes
\* whether the board game was inside a save_state when the file was read,
\* and the documents before and after that save.
DashboardRun(expired) ==
    /\ IF dashboard # None /\ ~expired
       THEN UNCHANGED dashboard
       ELSE dashboard' =
              [loaded   |-> load_game_state(file),
               page     |-> select_player(load_game_state(file)),
               fellback |-> file = None \/ file = Truncated,
               overlap  |-> writer # None /\ writer.pc = "dump",
               before   |-> IF writer = None THEN file ELSE writer.before,
               after    |-> IF state = None THEN file ELSE state]
    /\ UNCHANGED <<state, is_rolling, game_data, file, writer, turns>>
    /\ UNCHANGED <<session_vars, provider_vars>>

DashboardNext ==
    \/ BoardNext
    \/ \E expired \in BOOLEAN : DashboardRun(expired)

\* The board game and the dashboard side by side.
SpecDashboard == Init /\ [][DashboardNext]_vars

(***************************************************************************)
(* Properties of calculate_yield, checked under Spec.                      *)
(***************************************************************************)
Harvested == game_state = "results" /\ results # None

InBand(soil) == soil >= 30 /\ soil <= 50

\* C1: whatever the summary, the decision in [0,100] and the optimal
\* reference, the yield calculate_yield returns lies in [0,150]; in app.py
\* and in game_engine.py.  Stated of the result a harvest stored and, on the
\* playing page, of the result every pair of slider values would get.
C1_YieldWithinRange ==
    /\ Harvested =>
          /\ 0 <= results.yield /\ results.yield <= Pct(150)
          /\ 0 <= engine_results.yield /\ engine_results.yield <= Pct(150)
    /\ game_state = "playing" =>
          \A i \in Levels, f \in Levels :
             LET y == calculate_yield(analysis, optimal, i, f).yield
                 e == engine_calculate_yield(analysis, i, f).yield
             IN  0 <= y /\ y <= Pct(150) /\ 0 <= e /\ e <= Pct(150)

\* A harvest with the lowest score the rules give: drought, too little
\* water, too little fertilizer.
C1_Witness ==
    /\ Harvested
    /\ analysis.avg_soil_moisture < 30
    /\ decision.irrigation < 50
    /\ decision.fertilizer < 20
    /\ results.yield = Pct(50)

\* The two terms as the specification words them: the first reads the soil
\* moisture, the irrigation and the optimal irrigation only, the second the
\* fertilizer and the optimal fertilizer only.
IrrigationTerm(soil, irr, optIrr) ==
    CASE soil < 30 -> IF irr >= 50 THEN Pct(15) ELSE -Pct(30)
      [] soil > 50 -> IF irr <= 30 THEN Pct(20) ELSE -Pct(25)
      [] OTHER     -> IF Pct(20) - Abs(irr - optIrr) > 0
                      THEN Pct(20) - Abs(irr - optIrr) ELSE 0

FertilizerTerm(fert, optFert) ==
    LET fertDiff == Abs(fert - optFert)
    IN  CASE fertDiff <= 10 -> Pct(25)
          [] fertDiff > 10 /\ fertDiff <= 20 -> Pct(10)
          [] fertDiff > 20 /\ fert > 80 -> -Pct(15)
          [] fertDiff > 20 /\ fert < 20 -> -Pct(20)
          [] OTHER -> 0

Clamp(x, lo, hi) == IF x < lo THEN lo ELSE IF x > hi THEN hi ELSE x

ClampedSum(soil, irr, fert, opt) ==
    Clamp(Pct(100) + IrrigationTerm(soil, irr, opt.irrigation)
                   + FertilizerTerm(fert, opt.fertilizer),
          0, Pct(150))

\* C2: the yield is clamp(100 + irrigationTerm + fertilizerTerm, 0, 150), the
\* two terms computed independently; soil 0.25, irrigation 60, fertilizer 50
\* and optimal (45, 50) give exactly 140.  Stated of the stored result and,
\* on the playing page, of every pair of slider values.
C2_YieldIsClampedSum ==
    /\ Harvested =>
          /\ results.yield =
                ClampedSum(analysis.avg_soil_moisture, decision.irrigation,
                           decision.fertilizer, optimal)
          /\ (/\ analysis.avg_soil_moisture = 25
              /\ decision = [irrigation |-> 60, fertilizer |-> 50]
              /\ optimal = [irrigation |-> 45, fertilizer |-> 50])
             => results.yield = Pct(140)
    /\ game_state = "playing" =>
          \A i \in Levels, f \in Levels :
             calculate_yield(analysis, optimal, i, f).yield =
                ClampedSum(analysis.avg_soil_moisture, i, f, optimal)

C2_Witness ==
    /\ Harvested
    /\ analysis = Summary(320, 150, 25)
    /\ decision = [irrigation |-> 60, fertilizer |-> 50]
    /\ optimal = SCENARIOS.wheat_kansas
    /\ results.yield = Pct(140)

\* C3: outside the optimal soil band the irrigation term is decided by the
\* irrigation level alone: below 0.3 it is +15 for irrigation >= 50 and -30
\* otherwise, above 0.5 it is +20 for irrigation <= 30 and -25 otherwise.
C3_IrrigationTermOutsideBand ==
    Harvested =>
        /\ analysis.avg_soil_moisture < 30 =>
             terms.irrigation =
                IF decision.irrigation >= 50 THEN Pct(15) ELSE -Pct(30)
        /\ analysis.avg_soil_moisture > 50 =>
             terms.irrigation =
                IF decision.irrigation <= 30 THEN Pct(20) ELSE -Pct(25)

\* Soil 0.6 and irrigation 40: the overwatering penalty.
C3_Witness ==
    /\ Harvested
    /\ analysis.avg_soil_moisture = 60
    /\ decision.irrigation = 40
    /\ terms.irrigation = -Pct(25)

\* C4: with the soil moisture in 0.3 .. 0.5, both ends included, the
\* irrigation term is max(0, 20 - |irrigation - optimal.irrigation| / 2):
\* never negative, never above 20, and 0 from a distance of 40 on.
C4_IrrigationTermInBand ==
    (Harvested /\ InBand(analysis.avg_soil_moisture)) =>
        LET dist == Abs(decision.irrigation - optimal.irrigation)
        IN  /\ 2 * terms.irrigation = Max(0, 2 * Pct(20) - Pct(dist))
            /\ terms.irrigation >= 0
            /\ terms.irrigation <= Pct(20)
            /\ dist >= 40 => terms.irrigation = 0

\* The upper end of the band, 40 away from the optimum.
C4_Witness ==
    /\ Harvested
    /\ analysis.avg_soil_moisture = 50
    /\ Abs(decision.irrigation - optimal.irrigation) = 40
    /\ terms.irrigation = 0

\* C5: the fertilizer term is the first match of: +25 if fertDiff <= 10, +10
\* if fertDiff <= 20, -15 if fertilizer > 80, -20 if fertilizer < 20, else 0.
\* Each value is given in exactly its own band, so a fertilizer above 80 or
\* below 20 within 20 of the optimal is rewarded.
C5_FertilizerTermFirstMatch ==
    Harvested =>
        LET fert     == decision.fertilizer
            fertDiff == Abs(fert - optimal.fertilizer)
            t        == terms.fertilizer
        IN  /\ t \in {Pct(25), Pct(10), -Pct(15), -Pct(20), 0}
            /\ t = Pct(25) <=> fertDiff <= 10
            /\ t = Pct(10) <=> (fertDiff > 10 /\ fertDiff <= 20)
            /\ t = -Pct(15) <=> (fertDiff > 20 /\ fert > 80)
            /\ t = -Pct(20) <=> (fertDiff > 20 /\ fert < 20)
            /\ t = 0 <=> (fertDiff > 20 /\ fert >= 20 /\ fert <= 80)
            /\ ((fert > 80 \/ fert < 20) /\ fertDiff <= 20) => t > 0

\* A fertilizer above 80, within 20 of the optimal 100.
C5_Witness ==
    /\ Harvested
    /\ decision.fertilizer = 85
    /\ optimal.fertilizer = 100
    /\ terms.fertilizer = Pct(10)

\* The yield another irrigation level b would score in the harvested round.
YieldAt(b) ==
    calculate_yield(analysis, optimal, b, decision.fertilizer).yield

\* C6: with the fertilizer at its optimum and the soil moisture in the band,
\* the yield is largest exactly at the optimal irrigation, an irrigation at
\* most as far from the optimum as another scores at least as much, and the
\* yield never falls below the floor of an irrigation term of 0.
C6_YieldMonotoneInDistance ==
    (/\ Harvested
     /\ InBand(analysis.avg_soil_moisture)
     /\ decision.fertilizer = optimal.fertilizer) =>
        LET a == decision.irrigation
            o == optimal.irrigation
        IN  /\ \A b \in Levels :
                  Abs(a - o) <= Abs(b - o) => results.yield >= YieldAt(b)
            /\ (\A b \in Levels : results.yield >= YieldAt(b)) <=> a = o
            /\ results.yield >= Pct(100) + Pct(25)

\* The optimal decision of the wheat scenario: 145.
C6_Witness ==
    /\ Harvested
    /\ InBand(analysis.avg_soil_moisture)
    /\ decision = SCENARIOS.wheat_kansas
    /\ optimal = SCENARIOS.wheat_kansas
    /\ results.yield = Pct(145)

\* C7: the water usage is irrigation * 10 and the fertilizer cost is
\* fertilizer * 5, whatever the summary and the yield; in app.py and in
\* game_engine.py.
C7_UsageAndCost ==
    Harvested =>
        /\ results.water_usage = decision.irrigation * 10
        /\ results.fert_cost = decision.fertilizer * 5
        /\ engine_results.water_usage = decision.irrigation * 10
        /\ engine_results.fertilizer_cost = decision.fertilizer * 5

C7_Witness ==
    /\ Harvested
    /\ decision = [irrigation |-> 60, fertilizer |-> 30]
    /\ results.water_usage = 600
    /\ results.fert_cost = 150

(***************************************************************************)
(* Properties of generate_recommendations, checked under SpecRecommend.    *)
(***************************************************************************)
Rendered == rec_of # None

RuleOrder ==
    <<"low_soil_moisture", "low_rainfall", "high_temperature",
      "overwatering_risk">>

RuleFires(an, rule) ==
    CASE rule = "low_soil_moisture" -> an.avg_soil_moisture < 30
      [] rule = "low_rainfall"      -> an.avg_precipitation < 200
      [] rule = "high_temperature"  -> an.avg_temperature > 300
      [] rule = "overwatering_risk" ->
            an.avg_soil_moisture > 50 /\ an.avg_precipitation > 500

FiredRules(an) ==
    LET Fires(rule) == RuleFires(an, rule)
    IN  SelectSeq(RuleOrder, Fires)

Elements(seq) == {seq[i] : i \in 1..Len(seq)}

\* C8: the four rules are evaluated independently, every matching rule is
\* emitted, in the order low soil moisture, low rainfall, high temperature,
\* overwatering risk; soil 0.25, precip 1.5, temp 32 gives the first three.
C8_AllMatchingRulesInOrder ==
    Rendered =>
        /\ FiredRules(rec_of) # <<>> => recs = FiredRules(rec_of)
        /\ rec_of = Summary(320, 150, 25) =>
             recs = <<"low_soil_moisture", "low_rainfall", "high_temperature">>

C8_Witness ==
    /\ rec_of = Summary(320, 150, 25)
    /\ recs = <<"low_soil_moisture", "low_rainfall", "high_temperature">>

\* C9: the output is never empty; it holds the "conditions optimal" message
\* exactly when no warning rule fired, and then nothing else; in app.py and
\* in game_engine.py.
C9_OptimalIffNoWarning ==
    Rendered =>
        \A out \in {recs, engine_recs} :
            /\ out # <<>>
            /\ "conditions_optimal" \in Elements(out)
                  <=> FiredRules(rec_of) = <<>>
            /\ FiredRules(rec_of) = <<>> => out = <<"conditions_optimal">>

C9_Witness ==
    /\ Rendered
    /\ rec_of.avg_soil_moisture = 30
    /\ rec_of.avg_precipitation = 200
    /\ rec_of.avg_temperature = 300
    /\ recs = <<"conditions_optimal">>

Headline == results.feedback[1]

\* C11: the first feedback line depends on the yield alone: "outstanding"
\* exactly above 120, "excellent" exactly in (100, 120], "good" exactly in
\* (85, 100], "review the data" exactly at 85 and below; so a yield of 120
\* reads "excellent", 100 reads "good" and 85 reads "review the data".
C11_FeedbackHeadline ==
    Harvested =>
        /\ Headline = "outstanding" <=> results.yield > Pct(120)
        /\ Headline = "excellent" <=>
                (Pct(100) < results.yield /\ results.yield <= Pct(120))
        /\ Headline = "good" <=>
                (Pct(85) < results.yield /\ results.yield <= Pct(100))
        /\ Headline = "review" <=> results.yield <= Pct(85)

\* A harvest that scores exactly 120.
C11_Witness ==
    /\ Harvested
    /\ results.yield = Pct(120)
    /\ Headline = "excellent"

\* Harvests that score exactly 100 and exactly 85.
C11_At100 == Harvested /\ results.yield = Pct(100) /\ Headline = "good"
C11_At85 == Harvested /\ results.yield = Pct(85) /\ Headline = "review"

(***************************************************************************)
(* Properties of analyze_conditions, checked under SpecSummarize.          *)
(***************************************************************************)
Summarized == summary # None

AnySequenceEmpty(data) ==
    /\ "parameter" \in DOMAIN data
    /\ \E v \in DOMAIN data.parameter : data.parameter[v] = <<>>

\* C12: analyze_conditions on a series one of whose sequences is empty, or
\* before any series was loaded, raises an error to its caller; it returns
\* no value.
C12_EmptySeriesIsError ==
    (Summarized /\ (nasa_data = None \/ AnySequenceEmpty(nasa_data)))
        => summary.kind = "raised"

\* The three averages of a returned summary, each with the sequence it was
\* taken of.
Averages ==
    <<[avg |-> summary.value.avg_temperature,
       of  |-> nasa_data.parameter.T2M],
      [avg |-> summary.value.avg_precipitation,
       of  |-> nasa_data.parameter.PRECTOTCORR],
      [avg |-> summary.value.avg_soil_moisture,
       of  |-> nasa_data.parameter.GWETROOT]>>

\* avg, in units of the last kept decimal, against the range of seq, whose
\* values carry one decimal more.
WithinRange(avg, seq, slack) ==
    /\ SeqMin(seq) - slack <= 10 * avg
    /\ 10 * avg <= SeqMax(seq) + slack

OnGrid(seq) == \A k \in 1..Len(seq) : seq[k] % 10 = 0

ReturnedSummary == Summarized /\ summary.kind = "summary"

\* C13: each average analyze_conditions returns is the mean rounded to the
\* last kept decimal, so it lies within half a unit of that decimal of the
\* range from the minimum to the maximum of its sequence, and inside the
\* range when every value of the sequence is a multiple of that unit.
C13_AverageNearRange ==
    ReturnedSummary =>
        \A i \in 1..3 :
            /\ WithinRange(Averages[i].avg, Averages[i].of, 5)
            /\ OnGrid(Averages[i].of) =>
                    WithinRange(Averages[i].avg, Averages[i].of, 0)

\* C13 as first stated: each returned average lies between the minimum and
\* the maximum of its sequence, the rounding included.
C13_AverageWithinRange ==
    ReturnedSummary =>
        \A i \in 1..3 : WithinRange(Averages[i].avg, Averages[i].of, 0)

\* A returned temperature average that the rounding moved below every
\* temperature of the series.
C13_Witness ==
    /\ ReturnedSummary
    /\ 10 * summary.value.avg_temperature < SeqMin(nasa_data.parameter.T2M)
    /\ Len(nasa_data.parameter.T2M) = 2

(***************************************************************************)
(* Properties of the fallback, checked under SpecFallback.                 *)
(***************************************************************************)
SameArguments ==
    /\ Len(samples) = 2
    /\ samples[1].variant = samples[2].variant
    /\ samples[1].days = samples[2].days

\* C15: two fallback generations with the same arguments return equal
\* values at every day index, for all four variables.
C15_FallbackDeterministic ==
    SameArguments => samples[1].series = samples[2].series

Lengths(series) == {Len(series.parameter[v]) : v \in DOMAIN series.parameter}

\* C16: a fallback series holds exactly the four variables, its four
\* sequences have one length, the number of days asked for, which is at
\* least 1; two generations with the same arguments agree on the variables
\* and on the length.
C16_FallbackShape ==
    /\ \A i \in 1..Len(samples) :
          /\ DOMAIN samples[i].series = {"parameter"}
          /\ DOMAIN samples[i].series.parameter = Variables
          /\ Lengths(samples[i].series) = {samples[i].days}
          /\ samples[i].days >= 1
    /\ SameArguments =>
          /\ DOMAIN samples[1].series.parameter
                = DOMAIN samples[2].series.parameter
          /\ Lengths(samples[1].series) = Lengths(samples[2].series)

\* Two generations of app.py for two days whose values differ.
C16_Witness ==
    /\ SameArguments
    /\ samples[1].variant = "app"
    /\ samples[1].days = 2
    /\ samples[1].series # samples[2].series

(***************************************************************************)
(* Properties of get_climate_data.                                         *)
(***************************************************************************)
Returned(c) == call[c].pc = "returned"

HoldsAllFour(data) ==
    /\ "parameter" \in DOMAIN data
    /\ DOMAIN data.parameter = Variables
    /\ \A v \in Variables : data.parameter[v] # <<>>

\* C14: whatever upstream answers, get_climate_data returns a series that
\* holds all four variables with at least one value each, on which
\* analyze_conditions returns a summary.  Under SpecFetch.
C14_FetchReturnsValidSeries ==
    \A c \in Callers :
        Returned(c) =>
            /\ HoldsAllFour(call[c].ret)
            /\ \A o \in analyze_conditions(call[c].ret) : o.kind = "summary"

\* C17: once upstream has delivered a body for (lat, lon, days), a later
\* call with the same arguments returns that body and sends no request,
\* whatever was fetched in between.  Under SpecFetch.
C17_CachedFetchRepeats ==
    \A c \in Callers :
        call[c].had_live =>
            /\ Returned(c)
            /\ call[c].sent = 0
            /\ call[c].ret = live[call[c].args].body

\* A repeated call at a later instant, after another key was fetched live.
C17_Witness ==
    /\ Returned("c1")
    /\ call["c1"].had_live
    /\ call["c1"].outcome = "hit"
    /\ live[call["c1"].args].at < call["c1"].end_date
    /\ \E k \in DOMAIN cache : k # call["c1"].cache_key

\* C18: in game_engine.py a load for coordinates that were loaded live at
\* an earlier instant is answered from the cache.  Under SpecEngineFetch.
C18_EngineSecondLoadHits ==
    \A c \in Callers :
        (/\ call[c].had_live
         /\ live[call[c].args].at < call[c].end_date)
            => call[c].outcome = "hit"

Fallbacks(days) == {get_sample_data(days, rnd) : rnd \in RandomStreams}

\* C19: a call sends at most one request, and a call whose request failed
\* has sent exactly one and returns the fallback of its variant.  Under
\* SpecFetch; it holds under SpecEngineFetch as well.
C19_AtMostOneRequest ==
    \A c \in Callers :
        /\ call[c].sent <= 1
        /\ (Returned(c) /\ call[c].outcome \in Failures) =>
              /\ call[c].sent = 1
              /\ \/ call[c].ret = engine_get_sample_data
                 \/ call[c].ret \in Fallbacks(call[c].args[3])

\* A call that timed out and returned.
C19_Witness ==
    /\ Returned("c1")
    /\ call["c1"].outcome = "timeout"
    /\ call["c1"].sent = 1
    /\ call["c1"].ret \in Fallbacks(MaxDays)

\* C20: a key of the cache keeps the value it first held, whichever way the
\* calls of two callers interleave.  Under SpecConcurrentFetch.
C20_CacheAppendOnly ==
    \A k \in DOMAIN cache : k \in DOMAIN live /\ cache[k] = live[k].body

FailedReturn(cl) == cl.pc = "returned" /\ cl.outcome \in Failures

\* C29: the step in which a request fails leaves the cache as it was, with
\* nothing under the key and the returned fallback nowhere in it; and the
\* next call for the same key after a failed one sends a request again.
\* Under SpecFetch.
C29_FailedFetchNotCached ==
    [][\A c \in Callers :
          /\ (call[c].pc = "request" /\ FailedReturn(call'[c])) =>
                /\ cache' = cache
                /\ call'[c].cache_key \notin DOMAIN cache'
                /\ \A k \in DOMAIN cache' : cache'[k] # call'[c].ret
          /\ (/\ FailedReturn(call[c])
              /\ call'[c] # call[c]
              /\ call'[c].cache_key = call[c].cache_key) =>
                /\ call'[c].pc = "request"
                /\ call'[c].sent = 1]_vars

\* A call that failed and returned the fallback while the cache holds the
\* live bodies of two other keys and nothing under its own.
C29_Witness ==
    /\ FailedReturn(call["c1"])
    /\ call["c1"].ret \in Fallbacks(MaxDays)
    /\ Cardinality(DOMAIN cache) = 2
    /\ call["c1"].cache_key \notin DOMAIN cache

(***************************************************************************)
(* Properties of the app.py session, checked under SpecSession.            *)
(***************************************************************************)
\* C21: from the load on, the simulator of a session holds the series it
\* loaded (prev.input), through every render, harvest and Try Again, and
\* every round of the playing and results pages has the summary of the
\* first one (prev.output).
C21_SeriesFixedAfterLoad ==
    game_state # "welcome" =>
        /\ nasa_data = prev.input
        /\ game_state \in {"playing", "results"} => summary = prev.output

\* The playing page after a harvest and a Try Again, on a fallback series
\* that a second load would draw anew.
C21_Witness ==
    /\ game_state = "playing"
    /\ decision # None
    /\ summary.kind = "summary"
    /\ nasa_data \in {get_sample_data(DefaultDays, rnd) : rnd \in SessionStreams}
    /\ recs # <<>>

\* C28: game_state is one of the four pages; on the playing and results
\* pages a simulator exists and load_nasa_data has given it its data; on
\* the results page a result is stored, and the calculate_yield that gave
\* it ran on a series that has a summary.
C28_PageFlowInvariant ==
    /\ game_state \in {"welcome", "playing", "multi-playing", "results"}
    /\ game_state \in {"playing", "results"} =>
          /\ optimal \in {SCENARIOS[k] : k \in DOMAIN SCENARIOS}
          /\ nasa_data # None
    /\ game_state = "results" =>
          /\ results # None
          /\ results.yield \in 0..Pct(150)
          /\ \A o \in analyze_conditions(nasa_data) : o.kind = "summary"

\* A stored result for the rice scenario, in a session that has loaded the
\* two other locations before.
C28_Witness ==
    /\ game_state = "results"
    /\ results # None
    /\ optimal = SCENARIOS.rice_california
    /\ Cardinality(DOMAIN cache) >= 2

(***************************************************************************)
(* Properties of the board game, checked under SpecBoard, and of its       *)
(* dashboard, checked under SpecDashboard.                                 *)
(***************************************************************************)
\* C22: a dashboard read of game_state.json made while the board game is
\* inside a save_state over an earlier document returns the document before
\* that save or the one being saved.
C22_ReadsWholeDocument ==
    (/\ dashboard # None
     /\ dashboard.overlap
     /\ dashboard.before # None)
        => dashboard.loaded \in {dashboard.before, dashboard.after}

Tiles == Len(game_data.board_tiles)
Others == DOMAIN state.players \ {Current}

\* The step is the one in which update resolves a roll.
RollResolves == is_rolling /\ ~is_rolling' /\ state' # None

\* C23: every position is a tile index in [0, numberOfTiles); the step in
\* which a roll resolves moves the current player, and nobody else, to
\* (position + dice) mod numberOfTiles with the dice in 1..6, and no other
\* step of the running game moves anybody.
C23_ModularMovement ==
    [][state' # None =>
          /\ \A i \in DOMAIN state'.players :
                state'.players[i].position \in 0..(Len(game_data'.board_tiles) - 1)
          /\ state # None =>
                /\ \A i \in Others :
                      state'.players[i].position = state.players[i].position
                /\ IF RollResolves
                   THEN /\ state'.dice_value \in 1..6
                        /\ state'.players[Current].position =
                              (CurrentPlayer.position + state'.dice_value) % Tiles
                   ELSE state'.players[Current].position =
                              CurrentPlayer.position]_vars

\* The first roll of a game on the four-tile board is a 6: the piece goes
\* once round and stops on tile 2.
C23_Witness ==
    /\ state # None
    /\ Tiles = 4
    /\ turns = 0
    /\ state.dice_value = 6
    /\ state.players[1].position = 2
    /\ state.players[2].position = 0

\* The step ends a turn: a roll resolved on a field, a solution selected,
\* an asset bought.
TurnEnds ==
    \/ RollResolves /\ state'.game_state = "ROLL"
    \/ state.game_state \in {"CARD", "SHOP"} /\ state'.game_state = "ROLL"

\* C24: current_player is an index into the player list; a step that ends
\* a turn advances it by one modulo the number of players, and every other
\* step of the running game, a roll that opens CARD or SHOP included,
\* leaves it as it is.
C24_RoundRobin ==
    [][state' # None =>
          /\ state'.current_player \in 0..(Len(state'.players) - 1)
          /\ state # None =>
                /\ TurnEnds <=> turns' = turns + 1
                /\ state'.current_player =
                      IF TurnEnds
                      THEN (state.current_player + 1) % Len(state.players)
                      ELSE state.current_player]_vars

\* After three turns the second player, whose roll has opened the shop, is
\* the current one.
C24_Witness ==
    /\ state # None
    /\ turns = 3
    /\ state.current_player = 1
    /\ state.game_state = "SHOP"

\* C25: whenever the phase is CARD or SHOP, some button the current player
\* can click ends the turn, whatever their cash.
C25_PhaseCanBeLeft ==
    (state # None /\ writer = None) =>
        /\ state.game_state = "CARD" =>
              \E solution \in CardButtons : affordable(CurrentPlayer, solution)
        /\ state.game_state = "SHOP" =>
              \E asset \in ShopButtons : affordable(CurrentPlayer, asset)

\* C26: from the default state, with costs and income boosts that are not
\* negative, no player's cash is ever below zero, in the running game and
\* in the document it saved.
C26_CashNeverNegative ==
    /\ state # None =>
          \A i \in DOMAIN state.players : state.players[i].cash >= 0
    /\ file \notin {None, Truncated} =>
          \A i \in DOMAIN file.players : file.players[i].cash >= 0

\* A player who spent all of their cash on an asset.
C26_Witness ==
    /\ state # None
    /\ \E i \in DOMAIN state.players :
          /\ state.players[i].cash = 0
          /\ state.players[i].assets # <<>>

\* C27: a dashboard run that found game_state.json missing or unreadable
\* ends with the default player selected and shown.
C27_FallbackRenders ==
    (dashboard # None /\ dashboard.fellback) =>
        dashboard.page.kind = "rendered"

(***************************************************************************)
(* The sum calculate_yield clamps, checked under Spec.                     *)
(***************************************************************************)
\* base_yield of app.py's calculate_yield just before the clamp.
BaseYield(soil, irr, fert, opt) ==
    Pct(100) + irrigation_score(soil, irr, opt) + fertilizer_score(fert, opt)

\* C30: in app.py's calculate_yield the base plus the two terms lies in
\* [50, 145] for every soil regime, decision and optimal reference, so the
\* clamp to [0, 150] returns it unchanged.  Stated of the harvest made and,
\* on the playing page, of every pair of slider values.
C30_SumNeedsNoClamp ==
    /\ Harvested =>
          LET raw == Pct(100) + terms.irrigation + terms.fertilizer
          IN  /\ Pct(50) <= raw /\ raw <= Pct(145)
              /\ results.yield = raw
    /\ game_state = "playing" =>
          \A i \in Levels, f \in Levels :
             LET raw == BaseYield(analysis.avg_soil_moisture, i, f, optimal)
             IN  /\ Pct(50) <= raw /\ raw <= Pct(145)
                 /\ clamp_yield(raw) = raw
                 /\ calculate_yield(analysis, optimal, i, f).yield = raw

\* A harvest with the highest sum the rules give: soil in the optimal band,
\* irrigation and fertilizer at the optimum.
C30_Witness ==
    /\ Harvested
    /\ terms.irrigation = Pct(20)
    /\ terms.fertilizer = Pct(25)
    /\ results.yield = Pct(145)

====
